---- MODULE Spec2Model ----
(***************************************************************************)
(* A model of ups_cache.py: the Megatec Q1 reply parser, the JSON cache    *)
(* file with its TTL, the serial query, the Zabbix forwarder and the       *)
(* command dispatcher.                                                     *)
(*                                                                         *)
(* Text is modelled as text: replies, cache-file contents and printed      *)
(* lines are strings, scanned and built character by character.            *)
(* Python floats are decimal numbers with at most two fraction digits,     *)
(* held as an integer count of hundredths; the inputs of the model         *)
(* (reply tokens, clock readings) are drawn from that domain, without      *)
(* signs, exponents, inf or nan.                                           *)
(*                                                                         *)
(* A value used more than once is bound by a quantifier over a singleton   *)
(* ({e : x \in {v}} reads "e, with x standing for v").                     *)
(***************************************************************************)
EXTENDS Integers, Sequences, FiniteSets, TLC

VARIABLES
    now,        \* time.time(), in hundredths of a second
    ticks,      \* number of clock advances so far
    cache,      \* CACHE_FILE on disk: [exists, content]
    tmpfiles,   \* temporary files of the forwarder left on disk
    pc,         \* "idle", or "exited" when an invocation's result awaits its caller
    last,       \* what that invocation of main() did and printed
    written,    \* the last write_to_cache that succeeded: [valid, t0, values]
    line,       \* parser harness: the reply handed to parse_ups_response
    parsed,     \* parser harness: [done, val]
    procs       \* concurrent invocations: per process, its position and buffer

vars == <<now, ticks, cache, tmpfiles, pc, last, written, line, parsed, procs>>

\* the one element of a singleton set
The(S) == CHOOSE x \in S : TRUE

----------------------------------------------------------------------------
(* Program constants *)

CACHE_TTL == 120
BATTERY_HIGH == 20800
BATTERY_LOW == 16640
ZABBIX_HOSTNAME == "UPSMonitor"

STATUS_FLAGS ==
    << <<"utility_fail", 7>>, <<"battery_low", 6>>, <<"boost_buck_active", 5>>,
       <<"ups_failed", 4>>, <<"ups_type_standby", 3>>, <<"test_in_progress", 2>>,
       <<"shutdown_active", 1>>, <<"beeper_on", 0>> >>

----------------------------------------------------------------------------
(* Python values: None, int, float (hundredths), str-keyed dict (ordered); *)
(* t is the type and the other field, named after the type, the value       *)

None == [t |-> "none"]
PyInt(n) == [t |-> "int", n |-> n]
PyFloat(h) == [t |-> "float", h |-> h]
PyDict(items) == [t |-> "dict", items |-> items]

\* bool(x) as used by "if cached:", "if fresh:", "if data:"
Truthy(x) ==
    CASE x.t = "none" -> FALSE
      [] x.t = "dict" -> Len(x.items) > 0
      [] x.t = "int" -> x.n # 0
      [] OTHER -> x.h # 0

\* "key in data" for a dict
HasKey(d, key) == d.t = "dict" /\ \E i \in 1..Len(d.items) : d.items[i][1] = key

\* data[key] for a dict that has the key
GetItem(d, key) == d.items[CHOOSE i \in 1..Len(d.items) : d.items[i][1] = key][2]

----------------------------------------------------------------------------
(* Text helpers *)

Digits == {"0", "1", "2", "3", "4", "5", "6", "7", "8", "9"}
Whitespace == {" ", "\t", "\r", "\n"}

Char(s, i) == SubSeq(s, i, i)

AllIn(s, set) == \A i \in 1..Len(s) : Char(s, i) \in set

RECURSIVE ScanWhile(_, _, _)
\* the first position >= i whose character is not in set (Len(s)+1 if none)
ScanWhile(s, i, set) ==
    IF i > Len(s) \/ Char(s, i) \notin set THEN i ELSE ScanWhile(s, i + 1, set)

RECURSIVE ScanUntil(_, _, _)
\* the first position >= i whose character is in set (Len(s)+1 if none)
ScanUntil(s, i, set) ==
    IF i > Len(s) \/ Char(s, i) \in set THEN i ELSE ScanUntil(s, i + 1, set)

RECURSIVE ScanBackWhile(_, _, _)
\* the last position <= i whose character is not in set (0 if none)
ScanBackWhile(s, i, set) ==
    IF i < 1 \/ Char(s, i) \notin set THEN i ELSE ScanBackWhile(s, i - 1, set)

\* str.startswith
StartsWith(s, prefix) ==
    Len(s) >= Len(prefix) /\ SubSeq(s, 1, Len(prefix)) = prefix

\* str.strip(chars)
Strip(s, chars) ==
    The({ IF i > j THEN "" ELSE SubSeq(s, i, j) :
            i \in {ScanWhile(s, 1, chars)}, j \in {ScanBackWhile(s, Len(s), chars)} })

RECURSIVE SplitFrom(_, _)
SplitFrom(s, i) ==
    The({ IF b > Len(s) THEN <<>>
          ELSE The({ <<SubSeq(s, b, e - 1)>> \o SplitFrom(s, e) :
                       e \in {ScanUntil(s, b, Whitespace)} }) :
            b \in {ScanWhile(s, i, Whitespace)} })

\* str.split() with no argument: the runs of non-whitespace
Split(s) == SplitFrom(s, 1)

DigitVal(c) ==
    CASE c = "0" -> 0 [] c = "1" -> 1 [] c = "2" -> 2 [] c = "3" -> 3
      [] c = "4" -> 4 [] c = "5" -> 5 [] c = "6" -> 6 [] c = "7" -> 7
      [] c = "8" -> 8 [] c = "9" -> 9

RECURSIVE DigitsVal(_)
DigitsVal(s) ==
    IF s = "" THEN 0
    ELSE DigitsVal(SubSeq(s, 1, Len(s) - 1)) * 10 + DigitVal(Char(s, Len(s)))

\* the hundredths a fraction-digit string stands for
FracVal(f) ==
    IF Len(f) = 0 THEN 0
    ELSE IF Len(f) = 1 THEN DigitVal(Char(f, 1)) * 10
    ELSE DigitVal(Char(f, 1)) * 10 + DigitVal(Char(f, 2))

\* int(tok) succeeds: decimal digits only
IntOk(tok) == tok # "" /\ AllIn(tok, Digits)
IntVal(tok) == DigitsVal(tok)

\* float(tok) succeeds: digits with at most one point and at least one digit
FloatOk(tok) ==
    \A d \in {ScanUntil(tok, 1, {"."})} :
        /\ tok # ""
        /\ AllIn(SubSeq(tok, 1, d - 1) \o SubSeq(tok, d + 1, Len(tok)), Digits)
        /\ Len(tok) - (IF d <= Len(tok) THEN 1 ELSE 0) > 0
FloatVal(tok) ==
    The({ DigitsVal(SubSeq(tok, 1, d - 1)) * 100 + FracVal(SubSeq(tok, d + 1, Len(tok))) :
            d \in {ScanUntil(tok, 1, {"."})} })

\* repr() of a non-negative float: the shortest decimal, at least one fraction digit
FloatRepr(h) ==
    ToString(h \div 100) \o "." \o
    The({ IF f % 10 = 0 THEN ToString(f \div 10)
          ELSE IF f < 10 THEN "0" \o ToString(f)
          ELSE ToString(f) : f \in {h % 100} })

\* str(x) of a number, as print() and the f-string of the forwarder show it
Str(x) == IF x.t = "float" THEN FloatRepr(x.h) ELSE ToString(x.n)

----------------------------------------------------------------------------
(* Response parser *)

\* the mutant reads the status string from its start, not from its end
parse_status_bits_fromstart(bits) ==
    IF Len(bits) # 8 \/ ~AllIn(bits, {"0", "1"}) THEN <<>>
    ELSE [k \in 1..Len(STATUS_FLAGS) |->
            <<STATUS_FLAGS[k][1], PyInt(DigitVal(Char(bits, STATUS_FLAGS[k][2] + 1)))>>]

\* bits[7 - pos] is character 8 - pos counting from 1
parse_status_bits(bits) ==
    IF Len(bits) # 8 \/ ~AllIn(bits, {"0", "1"}) THEN <<>>
    ELSE [k \in 1..Len(STATUS_FLAGS) |->
            <<STATUS_FLAGS[k][1], PyInt(DigitVal(Char(bits, 8 - STATUS_FLAGS[k][2])))>>]

Clamp(x, lo, hi) == IF x < lo THEN lo ELSE IF x > hi THEN hi ELSE x

\* battery_voltage * 96.90265487, exactly, split so that it fits 32 bits:
\* b * 96.90265487 = (b * 96902 + b * 65487 / 10^5) / 1000 for b in hundredths
BatteryHi(b) == b * 96902
BatteryLo(b) == b * 65487

\* round(battery_voltage * 96.90265487, 2), in hundredths
battery_voltage_all(b) ==
    (2 * BatteryHi(b) + ((2 * BatteryLo(b)) \div 100000) + 1000) \div 2000

\* int(max(0, min(100, (total - LOW) / (HIGH - LOW) * 100)))
battery_percent(b) ==
    Clamp((BatteryHi(b) - BATTERY_LOW * 1000 + (BatteryLo(b) \div 100000))
              \div ((BATTERY_HIGH - BATTERY_LOW) * 10), 0, 100)

\* the fields converted with float(); field 4 is converted with int()
FloatFields == {1, 2, 3, 5, 6, 7}

\* the returned dict: f holds the float fields, load the int field
Snapshot(f, load, status_flags) ==
    PyDict(<< <<"input_voltage", PyFloat(f[1])>>,
              <<"input_fault_voltage", PyFloat(f[2])>>,
              <<"output_voltage", PyFloat(f[3])>>,
              <<"output_current_percent", PyInt(load)>>,
              <<"input_frequency", PyFloat(f[5])>>,
              <<"battery_voltage", PyFloat(f[6])>>,
              <<"battery_voltage_all", PyFloat(battery_voltage_all(f[6]))>>,
              <<"temperature", PyFloat(f[7])>>,
              <<"battery_charge", PyInt(battery_percent(f[6]))>> >>
           \o status_flags)

\* float() or int() raises ValueError on a token
Unparsable(parts) ==
    \/ \E k \in FloatFields : ~FloatOk(parts[k])
    \/ ~IntOk(parts[4])

\* the mutant rejects a reply whose status field is not 8 characters of 0/1
ParseFields_strict(parts) ==
    IF Len(parts) # 8 THEN None
    ELSE IF Unparsable(parts) THEN None
    ELSE IF parse_status_bits(parts[8]) = <<>> THEN None
    ELSE Snapshot([k \in FloatFields |-> FloatVal(parts[k])], IntVal(parts[4]),
                  parse_status_bits(parts[8]))

\* the body of the try block: the ValueError is caught and gives None
ParseFields(parts) ==
    IF Len(parts) # 8 THEN None
    ELSE IF Unparsable(parts) THEN None
    ELSE Snapshot([k \in FloatFields |-> FloatVal(parts[k])], IntVal(parts[4]),
                  parse_status_bits(parts[8]))

parse_ups_response(response) ==
    IF ~StartsWith(response, "(") THEN None
    ELSE The({ ParseFields(parts) :
                 parts \in {Split(Strip(response, {"(", ")", "\r", "\n"}))} })

----------------------------------------------------------------------------
(* json.dump and json.load, for the values the program stores *)

RECURSIVE json_dumps(_), DumpItems(_, _)
\* json.dumps with the default separators ", " and ": "
json_dumps(x) ==
    CASE x.t = "dict" -> "{" \o DumpItems(x.items, 1) \o "}"
      [] x.t = "float" -> FloatRepr(x.h)
      [] x.t = "int" -> ToString(x.n)
      [] OTHER -> "null"
DumpItems(items, i) ==
    IF i > Len(items) THEN ""
    ELSE (IF i > 1 THEN ", " ELSE "") \o "\"" \o items[i][1] \o "\": "
         \o json_dumps(items[i][2]) \o DumpItems(items, i + 1)

JsonFail == [ok |-> FALSE, val |-> None, pos |-> 0]
JsonOk(val, pos) == [ok |-> TRUE, val |-> val, pos |-> pos]

\* a JSON number at position i: (0|[1-9][0-9]*)(\.[0-9]+)?, where e is the
\* end of the integer part and f the end of the digits after a point
NumberAt(s, i, e, f) ==
    IF e <= Len(s) /\ Char(s, e) = "." /\ f > e + 1
    THEN JsonOk(PyFloat(FloatVal(SubSeq(s, i, f - 1))), f)
    ELSE JsonOk(PyInt(IntVal(SubSeq(s, i, e - 1))), e)
ParseNumberFrom(s, i, e) == NumberAt(s, i, e, ScanWhile(s, e + 1, Digits))
ParseNumber(s, i) ==
    ParseNumberFrom(s, i, IF Char(s, i) = "0" THEN i + 1 ELSE ScanWhile(s, i, Digits))

RECURSIVE ParseValue(_, _), ParseObject(_, _), ParseMembers(_, _, _)
RECURSIVE ParseKey(_, _, _, _), ParseColon(_, _, _, _), ParseRest(_, _, _, _)
RECURSIVE ParseNext(_, _, _)
\* a JSON value at position i: an object or a number (the program stores no
\* strings, arrays or literals as values; they decode as an error here)
ParseValue(s, i) ==
    IF i > Len(s) THEN JsonFail
    ELSE IF Char(s, i) = "{" THEN ParseObject(s, ScanWhile(s, i + 1, Whitespace))
    ELSE IF Char(s, i) \in Digits THEN ParseNumber(s, i)
    ELSE JsonFail
\* after the opening brace: j is the first position that is not whitespace
ParseObject(s, j) ==
    IF j <= Len(s) /\ Char(s, j) = "}" THEN JsonOk(PyDict(<<>>), j + 1)
    ELSE ParseMembers(s, j, <<>>)
\* "key": value pairs from position i up to the closing brace
ParseMembers(s, i, acc) ==
    IF i > Len(s) \/ Char(s, i) # "\"" THEN JsonFail
    ELSE ParseKey(s, i, acc, ScanUntil(s, i + 1, {"\""}))
\* q is the closing quote of the key that opens at i
ParseKey(s, i, acc, q) ==
    IF q > Len(s) THEN JsonFail
    ELSE ParseColon(s, acc, SubSeq(s, i + 1, q - 1), ScanWhile(s, q + 1, Whitespace))
\* c is the position of the colon after key
ParseColon(s, acc, key, c) ==
    IF c > Len(s) \/ Char(s, c) # ":" THEN JsonFail
    ELSE ParseRest(s, acc, key, ParseValue(s, ScanWhile(s, c + 1, Whitespace)))
\* val is the value of key
ParseRest(s, acc, key, val) ==
    IF ~val.ok THEN JsonFail
    ELSE ParseNext(s, Append(acc, <<key, val.val>>), ScanWhile(s, val.pos, Whitespace))
\* d is the position of the "," or "}" after a member
ParseNext(s, acc, d) ==
    IF d > Len(s) THEN JsonFail
    ELSE IF Char(s, d) = "}" THEN JsonOk(PyDict(acc), d + 1)
    ELSE IF Char(s, d) = "," THEN ParseMembers(s, ScanWhile(s, d + 1, Whitespace), acc)
    ELSE JsonFail

\* json.loads: one value, then nothing but whitespace ("Extra data" otherwise)
JsonWhole(s, r) ==
    IF r.ok /\ ScanWhile(s, r.pos, Whitespace) > Len(s) THEN r ELSE JsonFail
json_loads(s) == JsonWhole(s, ParseValue(s, ScanWhile(s, 1, Whitespace)))

----------------------------------------------------------------------------
(* Inputs of the model *)

MaxTicks == 3
MaxTmpFiles == 1
StatusSlack == 1
NumWriters == 2
RaceTicks == 1

\* clock advances, in hundredths of a second: 59.5 s and 60.5 s, so that two
\* of them put 119, 120 or 121 seconds between a write and a read
TickSteps == {5950, 6050}

RECURSIVE ClockAfter(_)
ClockAfter(k) ==
    IF k = 0 THEN {0}
    ELSE UNION {{t} \cup {t + d : d \in TickSteps} : t \in ClockAfter(k - 1)}

\* the clock readings the model can reach
Clocks == ClockAfter(MaxTicks)

\* lines the serial port can deliver (a Q1 reply ends with a carriage return):
\* two replies that parse, one of them with a 7-character status field, and
\* one with a field missing
Replies ==
    { "(230.5 140.0 229.0 012 50.1 2.17 25.0 10000001\r",
      "(228.25 140.0 229.0 100 49.9 1.85 31.5 0000100\r",
      "(230.5 140.0 229.0 012 50.1 2.17 25.0\r" }

MetricKeys == {"input_voltage", "beeper_on", "no_such_key"}

BadArgvs == {<<>>, <<"input_voltage", "extra">>}

\* a table of an operator's values, and its use: the value is computed when
\* the key is not in the table
Memo(table, key, value) == IF key \in DOMAIN table THEN table[key] ELSE value

----------------------------------------------------------------------------
(* Device query *)

\* what the serial exchange can yield: the port cannot be opened or the
\* write/read raises ("error"), or readline() returns a line
TransportError == [kind |-> "error", reply |-> ""]
Reply(text) == [kind |-> "line", reply |-> text]

SerialOutcomes == {TransportError} \cup {Reply(r) : r \in Replies}

\* parse_ups_response on the replies of the model, computed once
ParseTable == [r \in {Strip(x, Whitespace) : x \in Replies} |-> parse_ups_response(r)]

\* line = ser.readline().decode(errors="ignore").strip()
query_ups(serial) ==
    IF serial.kind = "error" THEN None
    ELSE The({ Memo(ParseTable, text, parse_ups_response(text)) :
                 text \in {Strip(serial.reply, Whitespace)} })

\* the snapshots the device query can return
Snapshots == {query_ups(s) : s \in SerialOutcomes} \ {None}

----------------------------------------------------------------------------
(* Cache store *)

NoFile == [exists |-> FALSE, content |-> ""]
File(content) == [exists |-> TRUE, content |-> content]

\* a stored number, in hundredths
Hundredths(x) == IF x.t = "int" THEN x.n * 100 ELSE x.h

\* the text json.dump produces for the entry written at time t
CacheEntry(values, t) ==
    json_dumps(PyDict(<< <<"timestamp", PyFloat(t)>>, <<"values", values>> >>))

\* the first half of a text: what a flush that fails midway leaves
Partial(text) == SubSeq(text, 1, Len(text) \div 2)

\* json.dump and json.load on the entries of the model, computed once
EntryTable == [k \in Snapshots \X Clocks |-> CacheEntry(k[1], k[2])]
Entry(values, t) == Memo(EntryTable, <<values, t>>, CacheEntry(values, t))
LoadTable ==
    [c \in UNION {{EntryTable[k], Partial(EntryTable[k])} : k \in DOMAIN EntryTable}
       |-> json_loads(c)]
Load(text) == Memo(LoadTable, text, json_loads(text))

\* the mutant accepts an entry that is exactly CACHE_TTL old
CheckFresh_inclusive(data, t) ==
    IF ~data.ok THEN None
    ELSE IF ~HasKey(data.val, "timestamp") THEN None
    ELSE IF GetItem(data.val, "timestamp").t \notin {"int", "float"} THEN None
    ELSE IF t - Hundredths(GetItem(data.val, "timestamp")) <= CACHE_TTL * 100
         THEN (IF HasKey(data.val, "values") THEN GetItem(data.val, "values") ELSE None)
    ELSE None

\* the try block, given what json.load made of the file: every exception
\* (decode error, KeyError, TypeError) is swallowed to None
CheckFresh(data, t) ==
    IF ~data.ok THEN None
    ELSE IF ~HasKey(data.val, "timestamp") THEN None
    ELSE IF GetItem(data.val, "timestamp").t \notin {"int", "float"} THEN None
    ELSE IF t - Hundredths(GetItem(data.val, "timestamp")) < CACHE_TTL * 100
         THEN (IF HasKey(data.val, "values") THEN GetItem(data.val, "values") ELSE None)
    ELSE None

read_from_cache(file, t) ==
    IF ~file.exists THEN None
    ELSE The({ CheckFresh(data, t) : data \in {Load(file.content)} })

\* how the write can end: it succeeds; open() raises and the file is left as
\* it was; or the file is opened (truncated) and the flush at close raises
\* after a part of the text reached the file
WriteOutcomes == {"ok", "open_error", "write_error"}

write_to_cache(file, values, t, outcome) ==
    CASE outcome = "ok" -> File(Entry(values, t))
      [] outcome = "open_error" -> file
      [] OTHER -> File(Partial(Entry(values, t)))

----------------------------------------------------------------------------
(* Cache-or-query fallback *)

\* what get_ups_data() returns and does: data is its return value
GetResult(data, file, cached, queried, fresh, wrote) ==
    [data |-> data, file |-> file, cached |-> cached, queried |-> queried,
     fresh |-> fresh, wrote |-> wrote]

\* the mutant queries the device before it looks at the cache
get_ups_data_queryfirst(file, t, serial, wout) ==
    The({ IF Truthy(fresh)
          THEN GetResult(fresh, write_to_cache(file, fresh, t, wout), cached, TRUE,
                         fresh, wout)
          ELSE IF Truthy(cached)
          THEN GetResult(cached, file, cached, TRUE, fresh, "none")
          ELSE GetResult(None, file, cached, TRUE, fresh, "none") :
            cached \in {read_from_cache(file, t)}, fresh \in {query_ups(serial)} })

\* serial and wout are what the device and the file system answer when asked
get_ups_data(file, t, serial, wout) ==
    The({ IF Truthy(cached)
          THEN GetResult(cached, file, cached, FALSE, None, "none")
          ELSE IF Truthy(fresh)
          THEN GetResult(fresh, write_to_cache(file, fresh, t, wout), cached, TRUE,
                         fresh, wout)
          ELSE GetResult(None, file, cached, TRUE, fresh, "none") :
            cached \in {read_from_cache(file, t)}, fresh \in {query_ups(serial)} })

----------------------------------------------------------------------------
(* Metrics forwarder *)

RECURSIVE ZabbixLines(_, _, _)
\* "<hostname> <key> <value>\n" for every int or float entry, in dict order
ZabbixLines(items, i, hostname) ==
    IF i > Len(items) THEN ""
    ELSE (IF items[i][2].t \in {"int", "float"}
          THEN hostname \o " " \o items[i][1] \o " " \o Str(items[i][2]) \o "\n"
          ELSE "")
         \o ZabbixLines(items, i + 1, hostname)

\* the sender's input file for the snapshots of the model, computed once
LinesTable == [k \in Snapshots \X {ZABBIX_HOSTNAME} |-> ZabbixLines(k[1].items, 1, k[2])]
Lines(data, hostname) ==
    Memo(LinesTable, <<data, hostname>>, ZabbixLines(data.items, 1, hostname))

\* how the forwarding can end: the sender runs and exits 0 or non-zero, the
\* sender binary is missing (subprocess.run raises), NamedTemporaryFile
\* raises, or a write to the temporary file raises
FwdOutcomes ==
    {"sent", "sender_nonzero", "sender_missing", "tmp_create_error", "tmp_write_error"}

\* out: the lines printed; tmpleft: temporary files of this call still on
\* disk when it ends; raised: an exception leaves the function; sent: the
\* text of the file handed to the sender
FwdResult(out, tmpleft, raised, sent) ==
    [out |-> out, tmpleft |-> tmpleft, raised |-> raised, sent |-> sent]

\* the forwarding, once the hostname is settled
Forward(data, host, notice, fwd) ==
    CASE fwd = "sent" ->
           FwdResult(notice \o <<"<sender stdout>">>, 0, FALSE, Lines(data, host))
      [] fwd = "sender_nonzero" ->
           FwdResult(notice \o <<"<sender stdout>", "<sender stderr>">>, 0, FALSE,
                     Lines(data, host))
      \* the exception is caught; temp_file_path is bound and the file removed
      [] fwd = "sender_missing" ->
           FwdResult(notice \o <<"Error sending to Zabbix: No such file or directory">>,
                     0, FALSE, "")
      \* the exception is caught, but temp_file_path was never assigned: the
      \* finally block raises UnboundLocalError, which leaves the function
      [] fwd = "tmp_create_error" ->
           FwdResult(notice \o <<"Error sending to Zabbix: cannot create file">>,
                     0, TRUE, "")
      \* as above, and the file NamedTemporaryFile(delete=False) made stays
      [] OTHER ->
           FwdResult(notice \o <<"Error sending to Zabbix: No space left on device">>,
                     1, TRUE, "")

send_all_to_zabbix(data, hostname, fwd) ==
    IF hostname = "" THEN Forward(data, "localhost", <<"Hostname Incorrect">>, fwd)
    ELSE Forward(data, hostname, <<>>, fwd)

----------------------------------------------------------------------------
(* Command dispatcher: one action per invocation of main().  An invocation  *)
(* is a one-shot process: it runs to its end (pc = "exited") and its caller *)
(* collects what it printed and its exit status before the next one runs.   *)

NoCall == GetResult(None, NoFile, None, FALSE, None, "none")
NoFwd == FwdResult(<<>>, 0, FALSE, "")

\* the record of one invocation: g is what the cache and the device did, f
\* what the forwarder did; uncaught is an exception that leaves main() (the
\* interpreter prints a traceback and exits with status 1)
Invocation(cmd, argv, out, readcache, g, fwd, f) ==
    [cmd |-> cmd, argv |-> argv, out |-> out,
     exit |-> IF cmd = "usage" \/ f.raised THEN 1 ELSE 0, uncaught |-> f.raised,
     at |-> now, cacheBefore |-> cache, readcache |-> readcache,
     cached |-> g.cached, queried |-> g.queried, fresh |-> g.fresh,
     wrote |-> g.wrote, data |-> g.data,
     fwd |-> fwd, tmpleft |-> f.tmpleft, sent |-> f.sent]

Idle ==
    [cmd |-> "none", argv |-> <<>>, out |-> <<>>, exit |-> 0, uncaught |-> FALSE,
     at |-> 0, cacheBefore |-> NoFile, readcache |-> FALSE,
     cached |-> None, queried |-> FALSE, fresh |-> None,
     wrote |-> "none", data |-> None,
     fwd |-> "none", tmpleft |-> 0, sent |-> ""]

\* the last write that succeeded, forgotten when a later write damages the file
Written(w, g) ==
    CASE g.wrote = "ok" -> [valid |-> TRUE, t0 |-> now, values |-> g.fresh]
      [] g.wrote = "write_error" -> [valid |-> FALSE, t0 |-> 0, values |-> None]
      [] OTHER -> w

NoLine == [text |-> "", kind |-> "none", status |-> ""]
NotParsed == [done |-> FALSE, val |-> None]

\* len(sys.argv) != 2: the usage line, sys.exit(1)
BadArgs ==
    /\ pc = "idle"
    /\ \E argv \in BadArgvs :
          last' = Invocation("usage", argv, <<"Usage: ups_cache.py <key>">>, FALSE,
                             NoCall, "none", NoFwd)
    /\ pc' = "exited"
    /\ UNCHANGED <<now, ticks, cache, tmpfiles, written, line, parsed, procs>>

\* the mutant writes the cache whatever the query returned
UpdateCacheEffect_always(file, t, serial, wout) ==
    The({ GetResult(None, write_to_cache(file, fresh, t, wout), None, TRUE, fresh, wout) :
            fresh \in {query_ups(serial)} })

\* the mutant answers from the cache while it is fresh
UpdateCacheEffect_cached(file, t, serial, wout) ==
    get_ups_data(file, t, serial, wout)

\* key == "update_cache": query, and write if the query gave data
UpdateCacheEffect(file, t, serial, wout) ==
    The({ IF Truthy(fresh)
          THEN GetResult(None, write_to_cache(file, fresh, t, wout), None, TRUE, fresh, wout)
          ELSE GetResult(None, file, None, TRUE, fresh, "none") :
            fresh \in {query_ups(serial)} })

\* print(key), then "OK" or "FAILED", sys.exit(0)
UpdateCache ==
    /\ pc = "idle"
    /\ \E serial \in SerialOutcomes, wout \in WriteOutcomes :
          \E g \in {UpdateCacheEffect(cache, now, serial, wout)} :
              /\ cache' = g.file
              /\ written' = Written(written, g)
              /\ last' = Invocation("update_cache", <<"update_cache">>,
                                    <<"update_cache",
                                      IF Truthy(g.fresh) THEN "OK" ELSE "FAILED">>,
                                    FALSE, g, "none", NoFwd)
    /\ pc' = "exited"
    /\ UNCHANGED <<now, ticks, tmpfiles, line, parsed, procs>>

\* what the send_to_zabbix branch prints and leaves behind, given the data
SendEffect(data, fwd) ==
    IF Truthy(data) THEN send_all_to_zabbix(data, ZABBIX_HOSTNAME, fwd)
    ELSE FwdResult(<<"No UPS data to send.">>, 0, FALSE, "")

\* key == "send_to_zabbix": print(key), forward or report, sys.exit(0)
SendToZabbix ==
    /\ pc = "idle"
    /\ \E serial \in SerialOutcomes, wout \in WriteOutcomes, fwd \in FwdOutcomes :
          \E g \in {get_ups_data(cache, now, serial, wout)} :
            \E f \in {SendEffect(g.data, fwd)} :
              /\ tmpfiles + f.tmpleft <= MaxTmpFiles
              /\ cache' = g.file
              /\ written' = Written(written, g)
              /\ tmpfiles' = tmpfiles + f.tmpleft
              /\ last' = Invocation("send_to_zabbix", <<"send_to_zabbix">>,
                                    <<"send_to_zabbix">> \o f.out, TRUE, g,
                                    IF Truthy(g.data) THEN fwd ELSE "none", f)
    /\ pc' = "exited"
    /\ UNCHANGED <<now, ticks, line, parsed, procs>>

\* the lines a metric-key invocation prints: print(key), then the value or
\* the error line
MetricOutput(key, data) ==
    <<key, IF Truthy(data) /\ HasKey(data, key) THEN Str(GetItem(data, key))
           ELSE "Error getting Data">>

\* any other single argument is a metric key; main() returns, status 0
MetricKey ==
    /\ pc = "idle"
    /\ \E key \in MetricKeys, serial \in SerialOutcomes, wout \in WriteOutcomes :
          \E g \in {get_ups_data(cache, now, serial, wout)} :
              /\ cache' = g.file
              /\ written' = Written(written, g)
              /\ last' = Invocation("metric", <<key>>, MetricOutput(key, g.data),
                                    TRUE, g, "none", NoFwd)
    /\ pc' = "exited"
    /\ UNCHANGED <<now, ticks, tmpfiles, line, parsed, procs>>

\* the caller collects the result of the invocation that ended
Reap ==
    /\ pc = "exited"
    /\ pc' = "idle"
    /\ last' = Idle
    /\ UNCHANGED <<now, ticks, cache, tmpfiles, written, line, parsed, procs>>

\* time passes between invocations
Tick ==
    /\ pc = "idle"
    /\ ticks < MaxTicks
    /\ \E d \in TickSteps : now' = now + d
    /\ ticks' = ticks + 1
    /\ UNCHANGED <<cache, tmpfiles, pc, last, written, line, parsed, procs>>

\* a machine on which the program has not run yet
Init ==
    /\ now = 0
    /\ ticks = 0
    /\ cache = NoFile
    /\ tmpfiles = 0
    /\ pc = "idle"
    /\ last = Idle
    /\ written = [valid |-> FALSE, t0 |-> 0, values |-> None]
    /\ line = NoLine
    /\ parsed = NotParsed
    /\ procs = <<>>

Next == BadArgs \/ UpdateCache \/ SendToZabbix \/ MetricKey \/ Reap \/ Tick

Spec == Init /\ [][Next]_vars

----------------------------------------------------------------------------
(* The parser alone: parse_ups_response applied to one reply.  line.kind    *)
(* says how the reply was built and line.status is its status field.        *)

RECURSIVE BitStrings(_)
\* the strings of n characters 0/1
BitStrings(n) ==
    IF n = 0 THEN {""} ELSE {s \o c : s \in BitStrings(n - 1), c \in {"0", "1"}}

GoodFields == <<"230.5", "140.0", "229.0", "012", "50.1", "2.17", "25.0">>

RECURSIVE Join(_, _)
\* " ".join(fields), from field i on
Join(fields, i) ==
    IF i > Len(fields) THEN ""
    ELSE fields[i] \o (IF i < Len(fields) THEN " " ELSE "") \o Join(fields, i + 1)

ReplyLine(fields, status, kind) ==
    [text |-> "(" \o Join(fields \o <<status>>, 1), kind |-> kind, status |-> status]

\* tokens float() and int() reject, and one only int() rejects
BadTokens == {"x", "1.2.3", ".", "23O.5", "--"}

WellFormedLines ==
    {ReplyLine(GoodFields, s, "wellformed") : s \in BitStrings(8)}
    \cup {[text |-> "(230 140. .5 7 50.1 13.65 25.0 01100110)\r\n",
           kind |-> "wellformed", status |-> "01100110"]}

BadStatusLines ==
    {ReplyLine(GoodFields, s, "bad_status") :
        s \in UNION {BitStrings(n) : n \in ((8 - StatusSlack)..(8 + StatusSlack)) \ {8}}}
    \cup {ReplyLine(GoodFields, SubSeq(s, 1, i - 1) \o "2" \o SubSeq(s, i + 1, 8),
                    "bad_status") : s \in BitStrings(8), i \in 1..8}

NonNumericLines ==
    {ReplyLine([GoodFields EXCEPT ![k] = bad], "00001001", "non_numeric") :
        k \in 1..7, bad \in BadTokens}
    \cup {ReplyLine([GoodFields EXCEPT ![4] = "12.0"], "00001001", "non_numeric")}

FieldCountLines ==
    { [text |-> "(" \o Join(GoodFields, 1), kind |-> "field_count", status |-> ""],
      [text |-> "(" \o Join(GoodFields, 1) \o " 00001001 1", kind |-> "field_count",
       status |-> "00001001"],
      [text |-> "(", kind |-> "field_count", status |-> ""] }

NoParenLines ==
    { [text |-> Join(GoodFields, 1) \o " 00001001", kind |-> "no_paren",
       status |-> "00001001"],
      [text |-> "", kind |-> "no_paren", status |-> ""],
      [text |-> " (" \o Join(GoodFields, 1) \o " 00001001", kind |-> "no_paren",
       status |-> "00001001"] }

ParseInputs ==
    WellFormedLines \cup BadStatusLines \cup NonNumericLines \cup FieldCountLines
    \cup NoParenLines

InitParse ==
    /\ line \in ParseInputs
    /\ parsed = NotParsed
    /\ now = 0 /\ ticks = 0 /\ cache = NoFile /\ tmpfiles = 0 /\ pc = "idle"
    /\ last = Idle /\ written = [valid |-> FALSE, t0 |-> 0, values |-> None]
    /\ procs = <<>>

ParseReply ==
    /\ ~parsed.done
    /\ parsed' = [done |-> TRUE, val |-> parse_ups_response(line.text)]
    /\ UNCHANGED <<now, ticks, cache, tmpfiles, pc, last, written, line, procs>>

SpecParse == InitParse /\ [][ParseReply]_vars

----------------------------------------------------------------------------
(* Concurrent invocations of "update_cache": the steps of write_to_cache    *)
(* of several processes interleave on the one cache file.  open(.., "w")    *)
(* truncates; json.dump fills the process's buffer (the entry is shorter    *)
(* than the buffer); close flushes the buffer with one write at the file    *)
(* position of the process's own descriptor, which is 0.                    *)

Writers == 1..NumWriters

Proc(at, values, buf) == [pc |-> at, values |-> values, buf |-> buf]

\* write(fd, buf) at offset 0 of a file holding old
WriteAt0(old, buf) == buf \o SubSeq(old, Len(buf) + 1, Len(old))

InitRace ==
    /\ procs = [p \in Writers |-> Proc("start", None, "")]
    /\ now = 0 /\ ticks = 0 /\ cache = NoFile /\ tmpfiles = 0 /\ pc = "idle"
    /\ last = Idle /\ written = [valid |-> FALSE, t0 |-> 0, values |-> None]
    /\ line = NoLine /\ parsed = NotParsed

\* fresh = query_ups(); a failed query ends the invocation ("FAILED")
RaceQuery(p) ==
    /\ procs[p].pc = "start"
    /\ \E serial \in SerialOutcomes :
          \E fresh \in {query_ups(serial)} :
              procs' = [procs EXCEPT ![p] =
                          Proc(IF Truthy(fresh) THEN "queried" ELSE "failed", fresh, "")]
    /\ UNCHANGED <<now, ticks, cache, tmpfiles, pc, last, written, line, parsed>>

\* open(CACHE_FILE, "w")
RaceOpen(p) ==
    /\ procs[p].pc = "queried"
    /\ cache' = File("")
    /\ procs' = [procs EXCEPT ![p].pc = "opened"]
    /\ UNCHANGED <<now, ticks, tmpfiles, pc, last, written, line, parsed>>

\* json.dump({"timestamp": time.time(), "values": values}, f)
RaceDump(p) ==
    /\ procs[p].pc = "opened"
    /\ procs' = [procs EXCEPT ![p] = Proc("dumped", procs[p].values,
                                          Entry(procs[p].values, now))]
    /\ UNCHANGED <<now, ticks, cache, tmpfiles, pc, last, written, line, parsed>>

\* leaving the with block: flush and close
RaceClose(p) ==
    /\ procs[p].pc = "dumped"
    /\ cache' = File(WriteAt0(cache.content, procs[p].buf))
    /\ procs' = [procs EXCEPT ![p].pc = "done"]
    /\ UNCHANGED <<now, ticks, tmpfiles, pc, last, written, line, parsed>>

RaceTick ==
    /\ ticks < RaceTicks
    /\ \E d \in TickSteps : now' = now + d
    /\ ticks' = ticks + 1
    /\ UNCHANGED <<cache, tmpfiles, pc, last, written, line, parsed, procs>>

NextRace ==
    \/ \E p \in Writers : RaceQuery(p) \/ RaceOpen(p) \/ RaceDump(p) \/ RaceClose(p)
    \/ RaceTick

SpecRace == InitRace /\ [][NextRace]_vars

----------------------------------------------------------------------------
(* Properties *)

Exited(cmd) == pc = "exited" /\ last.cmd = cmd
Printed(text) == \E i \in DOMAIN last.out : last.out[i] = text

\* the invocation that just ended went through get_ups_data()
Fallback == pc = "exited" /\ last.readcache

\* C1: after a write of snapshot S that succeeded at time t0 and with no other
\* write since, read_from_cache at time t returns S when t - t0 < 120 s and
\* null when t - t0 >= 120 s.
T_C1 ==
    written.valid =>
        read_from_cache(cache, now) =
            IF now - written.t0 < 120 * 100 THEN written.values ELSE None

\* C1 witness: an invocation 119 s after the write was answered from the cache
W_C1 ==
    /\ written.valid /\ Truthy(written.values)
    /\ now - written.t0 = 11900
    /\ Fallback /\ ~last.queried
    /\ last.data = written.values

\* C2 (as stated): the cache is consulted first; the device is queried iff the
\* cache read yields no data; a cached snapshot is returned with no exchange
\* and no change of the file; a successful query's snapshot is written to the
\* cache and returned; when both fail the result is null and the cache is
\* unchanged.
CE_C2 ==
    Fallback =>
        /\ last.cached = read_from_cache(last.cacheBefore, last.at)
        /\ last.queried <=> ~Truthy(last.cached)
        /\ Truthy(last.cached) =>
              last.data = last.cached /\ cache = last.cacheBefore
        /\ last.queried /\ Truthy(last.fresh) =>
              last.data = last.fresh /\ cache = File(Entry(last.fresh, last.at))
        /\ last.queried /\ ~Truthy(last.fresh) =>
              last.data = None /\ cache = last.cacheBefore

\* C2 (amended): as C2, but a successful query's snapshot is returned and a
\* write of it to the cache is attempted; the cache holds it when that write
\* succeeds, and is the file as it was when the file cannot be opened.
T_C2 ==
    Fallback =>
        /\ last.cached = read_from_cache(last.cacheBefore, last.at)
        /\ last.queried <=> ~Truthy(last.cached)
        /\ Truthy(last.cached) =>
              last.data = last.cached /\ cache = last.cacheBefore /\ last.wrote = "none"
        /\ last.queried /\ Truthy(last.fresh) =>
              /\ last.data = last.fresh
              /\ last.wrote \in WriteOutcomes
              /\ last.wrote = "ok" => cache = File(Entry(last.fresh, last.at))
              /\ last.wrote = "open_error" => cache = last.cacheBefore
        /\ last.queried /\ ~Truthy(last.fresh) =>
              last.data = None /\ cache = last.cacheBefore /\ last.wrote = "none"

\* C2 witness: a stale cache, a successful query, the new entry in the file
W_C2 ==
    /\ Fallback /\ last.cacheBefore.exists /\ ~Truthy(last.cached)
    /\ last.queried /\ Truthy(last.fresh) /\ last.wrote = "ok"
    /\ cache = File(Entry(last.fresh, last.at))
    /\ cache # last.cacheBefore

\* C3 (as stated): update_cache always queries the device; when the query
\* succeeds the cache afterwards holds the queried snapshot with a new
\* timestamp and "OK" is reported; "OK" is reported only in that case.
CE_C3 ==
    Exited("update_cache") =>
        /\ last.queried
        /\ Truthy(last.fresh) =>
              cache = File(Entry(last.fresh, last.at)) /\ Printed("OK")
        /\ Printed("OK") =>
              Truthy(last.fresh) /\ cache = File(Entry(last.fresh, last.at))

\* C3 (amended): update_cache always queries the device; "OK" is reported
\* exactly when the query succeeds; then a write of the queried snapshot is
\* attempted, and the cache holds it with the new timestamp when that write
\* succeeds.
T_C3 ==
    Exited("update_cache") =>
        /\ last.queried
        /\ Printed("OK") <=> Truthy(last.fresh)
        /\ Truthy(last.fresh) =>
              /\ last.wrote \in WriteOutcomes
              /\ last.wrote = "ok" => cache = File(Entry(last.fresh, last.at))

\* C3 witness: the cache was still fresh, and update_cache replaced it
W_C3 ==
    /\ Exited("update_cache")
    /\ Truthy(read_from_cache(last.cacheBefore, last.at))
    /\ last.queried /\ Truthy(last.fresh) /\ last.wrote = "ok" /\ Printed("OK")
    /\ cache = File(Entry(last.fresh, last.at))
    /\ cache # last.cacheBefore

\* C4: when the device query fails (transport error or unparsable reply),
\* update_cache prints "FAILED" and the cache file is exactly what it was.
T_C4 ==
    Exited("update_cache") /\ ~Truthy(last.fresh) =>
        Printed("FAILED") /\ ~Printed("OK") /\ cache = last.cacheBefore

\* C4 witness: a failed query with a well-formed prior entry in the cache
W_C4 ==
    /\ Exited("update_cache") /\ ~Truthy(last.fresh) /\ Printed("FAILED")
    /\ last.cacheBefore.exists /\ Load(last.cacheBefore.content).ok
    /\ cache = last.cacheBefore

\* C5 (as stated): after send_all_to_zabbix ends, on any of its paths, no
\* temporary file of that call remains.
CE_C5 == Exited("send_to_zabbix") => last.tmpleft = 0

\* C6 (as stated): the exit status is 1 exactly when the argument count is
\* wrong and 0 otherwise, and no failure ends the process with an uncaught
\* error.
CE_C6 ==
    pc = "exited" =>
        /\ last.exit = 1 <=> Len(last.argv) # 1
        /\ last.exit \in {0, 1}
        /\ ~last.uncaught

\* C7 (as stated): a metric-key invocation outputs the value stored under
\* the key when data was obtained and the key is present, and the line
\* "Error getting Data" otherwise; that is what the invocation outputs.
CE_C7 ==
    Exited("metric") =>
        last.out = <<IF Truthy(last.data) /\ HasKey(last.data, last.argv[1])
                     THEN Str(GetItem(last.data, last.argv[1]))
                     ELSE "Error getting Data">>

FlagNames == {STATUS_FLAGS[k][1] : k \in 1..Len(STATUS_FLAGS)}
NumericKeys ==
    {"input_voltage", "input_fault_voltage", "output_voltage", "output_current_percent",
     "input_frequency", "battery_voltage", "battery_voltage_all", "temperature",
     "battery_charge"}
Keys(d) == {d.items[k][1] : k \in 1..Len(d.items)}

\* C8 (as stated): parse_ups_response returns null for every malformed reply:
\* no leading "(", a field count other than 8, a non-numeric token in a
\* numeric field, a status field that is not 8 characters of 0/1.
CE_C8 == parsed.done /\ line.kind # "wellformed" => parsed.val = None

\* C8 (amended): parse_ups_response returns null for a reply with no leading
\* "(", with a field count other than 8 or with a non-numeric token in a
\* numeric field; for a reply whose only defect is a status field that is not
\* 8 characters of 0/1 it returns the snapshot of the nine numeric keys,
\* without any of the 8 flags.
T_C8 ==
    parsed.done =>
        /\ line.kind \in {"no_paren", "field_count", "non_numeric"} => parsed.val = None
        /\ line.kind = "bad_status" =>
              Truthy(parsed.val) /\ Keys(parsed.val) = NumericKeys

\* C8 witness: a status field of 7 characters, parsed to a snapshot
W_C8 ==
    /\ parsed.done /\ line.kind = "bad_status" /\ Len(line.status) = 7
    /\ Truthy(parsed.val)
    /\ ~HasKey(parsed.val, "beeper_on")

\* C9: for a status string s of 8 characters of 0/1 the snapshot has all 8
\* flags, the flag of bit p has the value of character s[7-p] (bit 7 = first
\* character = utility_fail, bit 0 = last character = beeper_on), and
\* "10000001" gives utility_fail = 1, beeper_on = 1 and every other flag 0.
T_C9 ==
    parsed.done /\ line.kind = "wellformed" =>
        /\ Truthy(parsed.val)
        /\ Keys(parsed.val) = NumericKeys \cup FlagNames
        /\ Cardinality(FlagNames) = 8
        /\ \A k \in 1..Len(STATUS_FLAGS) :
              GetItem(parsed.val, STATUS_FLAGS[k][1]) =
                  PyInt(IF SubSeq(line.status, (7 - STATUS_FLAGS[k][2]) + 1, (7 - STATUS_FLAGS[k][2]) + 1) = "1" THEN 1 ELSE 0)
        /\ GetItem(parsed.val, "utility_fail") =
              PyInt(IF SubSeq(line.status, 1, 1) = "1" THEN 1 ELSE 0)
        /\ GetItem(parsed.val, "beeper_on") =
              PyInt(IF SubSeq(line.status, 8, 8) = "1" THEN 1 ELSE 0)
        /\ line.status = "10000001" =>
              \A n \in FlagNames :
                  GetItem(parsed.val, n) =
                      PyInt(IF n \in {"utility_fail", "beeper_on"} THEN 1 ELSE 0)

\* C9 witness: status "01000000" sets battery_low (bit 6) and nothing else
W_C9 ==
    /\ parsed.done /\ line.kind = "wellformed" /\ line.status = "01000000"
    /\ GetItem(parsed.val, "battery_low") = PyInt(1)
    /\ GetItem(parsed.val, "shutdown_active") = PyInt(0)
    /\ GetItem(parsed.val, "utility_fail") = PyInt(0)

AllFinished == \A p \in Writers : procs[p].pc \in {"done", "failed"}

\* C10 (as stated): once all concurrent writers have finished, the cache file
\* holds exactly the complete entry written by one of them, and a read
\* returns that writer's snapshot.
CE_C10 ==
    AllFinished /\ (\E p \in Writers : procs[p].pc = "done") =>
        \E p \in Writers :
            /\ procs[p].pc = "done"
            /\ cache.content = procs[p].buf
            /\ Load(cache.content).ok
            /\ GetItem(Load(cache.content).val, "values") = procs[p].values

====
